---- MODULE Spec2Model ----
(***************************************************************************)
(* A model of src/src/stateToHTML.js: the MarkupGenerator that converts a  *)
(* Draft.js ContentState (a flat list of typed blocks with depths, inline  *)
(* styles and entities) into an HTML string.                               *)
(*                                                                         *)
(* Strings that the claims look into are sequences of one-character        *)
(* strings; an output fragment (one this.output.push) is a record that     *)
(* keeps the kind of the fragment next to its text.                        *)
(***************************************************************************)
EXTENDS Integers, Sequences, FiniteSets, TLC

VARIABLES
  blocks,                \* this.blocks: the document's blocks
  options,               \* this.options
  entities,              \* what the entity getter resolves each key to
  ENTITY_FORMATTER_MAP,  \* module-level table (line 81)
  ENTITY_ATTR_MAP,       \* module-level table (line 76)
  inlineStyles,          \* this.inlineStyles: style name -> element
  styleOrder,            \* this.styleOrder
  output,                \* this.output
  currentBlock,          \* this.currentBlock (0-based, as in the code)
  indentLevel,           \* this.indentLevel
  wrapperTag,            \* this.wrapperTag
  stack,                 \* the JavaScript call stack below the running frame
  pc,                    \* "new" | "run" | "done"
  result,                \* the string generate() returned
  owner,                 \* history: for each fragment of output, the block being processed
  order,                 \* history: the blocks processBlock was entered for, in order
  pieces,                \* history: the style pieces rendered for each block
  calls                  \* history: the finished calls (input and result)

vars == <<blocks, options, entities, ENTITY_FORMATTER_MAP, ENTITY_ATTR_MAP,
          inlineStyles, styleOrder, output, currentBlock, indentLevel, wrapperTag, stack,
          pc, result, owner, order, pieces, calls>>

Null == "null"

-----------------------------------------------------------------------------
(* Bounds of the model *)

MaxBlocks == 3
MaxDepth == 2
MaxTextLen == 4
MaxCalls == 3

-----------------------------------------------------------------------------
(* Constants of the program *)

BLOCK_TYPE ==
  [UNSTYLED |-> "unstyled", HEADER_ONE |-> "header-one", HEADER_TWO |-> "header-two",
   HEADER_THREE |-> "header-three", HEADER_FOUR |-> "header-four",
   HEADER_FIVE |-> "header-five", HEADER_SIX |-> "header-six",
   UNORDERED_LIST_ITEM |-> "unordered-list-item",
   ORDERED_LIST_ITEM |-> "ordered-list-item", BLOCKQUOTE |-> "blockquote",
   CODE |-> "code-block", ATOMIC |-> "atomic"]

INDENT == "  "
BREAK == <<"<", "b", "r", ">">>

-----------------------------------------------------------------------------
(* Strings *)

RECURSIVE Join(_)
Join(chars) == IF chars = <<>> THEN "" ELSE Head(chars) \o Join(Tail(chars))

RECURSIVE Repeat(_, _)
Repeat(s, n) == IF n <= 0 THEN "" ELSE s \o Repeat(s, n - 1)

-----------------------------------------------------------------------------
(* Output fragments *)

Frag(k, t, n, c) == [k |-> k, t |-> t, n |-> n, c |-> c]
IndentFrag(n) == Frag("indent", "", n, <<>>)     \* INDENT.repeat(n)
OpenFrag(tag) == Frag("open", tag, 0, <<>>)      \* `<${tag}>`
CloseFrag(tag) == Frag("close", tag, 0, <<>>)    \* `</${tag}>`
NewLine == Frag("nl", "", 0, <<>>)               \* '\n'
ContentFrag(c) == Frag("content", "", 0, c)      \* what renderBlockContent returned
RawFrag(s) == Frag("raw", s, 0, <<>>)            \* what a custom renderer returned

FragString(f) ==
  CASE f.k = "indent" -> Repeat(INDENT, f.n)
    [] f.k = "open" -> "<" \o f.t \o ">"
    [] f.k = "close" -> "</" \o f.t \o ">"
    [] f.k = "nl" -> "\n"
    [] f.k = "content" -> Join(f.c)
    [] OTHER -> f.t

RECURSIVE JoinFrags(_)
JoinFrags(fs) == IF fs = <<>> THEN "" ELSE FragString(Head(fs)) \o JoinFrags(Tail(fs))

IsBlank(f) == f.k \in {"indent", "nl"} \/ (f.k = "raw" /\ f.t = "")

RECURSIVE TrimLeft(_)
TrimLeft(fs) == IF fs # <<>> /\ IsBlank(Head(fs)) THEN TrimLeft(Tail(fs)) ELSE fs

RECURSIVE TrimRight(_)
TrimRight(fs) ==
  IF fs # <<>> /\ IsBlank(fs[Len(fs)]) THEN TrimRight(SubSeq(fs, 1, Len(fs) - 1)) ELSE fs

\* this.output.join('').trim()
JoinTrim(fs) == JoinFrags(TrimRight(TrimLeft(fs)))

-----------------------------------------------------------------------------
(* Block types *)

getTags(blockType) ==
  CASE blockType = BLOCK_TYPE.HEADER_ONE -> <<"h1">>
    [] blockType = BLOCK_TYPE.HEADER_TWO -> <<"h2">>
    [] blockType = BLOCK_TYPE.HEADER_THREE -> <<"h3">>
    [] blockType = BLOCK_TYPE.HEADER_FOUR -> <<"h4">>
    [] blockType = BLOCK_TYPE.HEADER_FIVE -> <<"h5">>
    [] blockType = BLOCK_TYPE.HEADER_SIX -> <<"h6">>
    [] blockType = BLOCK_TYPE.UNORDERED_LIST_ITEM -> <<"li">>
    [] blockType = BLOCK_TYPE.ORDERED_LIST_ITEM -> <<"li">>
    [] blockType = BLOCK_TYPE.BLOCKQUOTE -> <<"blockquote">>
    [] blockType = BLOCK_TYPE.CODE -> <<"pre", "code">>
    [] blockType = BLOCK_TYPE.ATOMIC -> <<"figure">>
    [] OTHER -> <<"p">>

getWrapperTag(blockType) ==
  CASE blockType = BLOCK_TYPE.UNORDERED_LIST_ITEM -> "ul"
    [] blockType = BLOCK_TYPE.ORDERED_LIST_ITEM -> "ol"
    [] OTHER -> Null

canHaveDepth(blockType) ==
  blockType \in {BLOCK_TYPE.UNORDERED_LIST_ITEM, BLOCK_TYPE.ORDERED_LIST_ITEM}

-----------------------------------------------------------------------------
(* Inline styles, entities and the tables of the module *)

INLINE_STYLE ==
  [BOLD |-> "BOLD", CODE |-> "CODE", ITALIC |-> "ITALIC",
   STRIKETHROUGH |-> "STRIKETHROUGH", UNDERLINE |-> "UNDERLINE"]

ENTITY_TYPE == [LINK |-> "LINK", IMAGE |-> "IMAGE"]

NBSP == "\\xA0"

DEFAULT_STYLE_MAP ==
  [BOLD |-> "strong", CODE |-> "code", ITALIC |-> "em",
   STRIKETHROUGH |-> "del", UNDERLINE |-> "ins"]

DEFAULT_STYLE_ORDER ==
  <<INLINE_STYLE.BOLD, INLINE_STYLE.ITALIC, INLINE_STYLE.UNDERLINE,
    INLINE_STYLE.STRIKETHROUGH, INLINE_STYLE.CODE>>

\* The tables as the module defines them, before any call.
DEFAULT_ENTITY_ATTR_MAP ==
  [LINK |-> [url |-> "href", rel |-> "rel", target |-> "target", title |-> "title",
             className |-> "class"],
   IMAGE |-> [src |-> "src", height |-> "height", width |-> "width", alt |-> "alt",
              className |-> "class"]]

\* A formatter is named by the key it is defined under.
DEFAULT_ENTITY_FORMATTER_MAP == [LINK |-> "LINK", IMAGE |-> "IMAGE", DEFAULT |-> "DEFAULT"]

\* Object.assign(target, source) on objects used as maps.
ObjectAssign(target, source) ==
  [k \in (DOMAIN target) \cup (DOMAIN source) |->
     IF k \in DOMAIN source THEN source[k] ELSE target[k]]

EmptyObject == [k \in {} |-> Null]

hasOwnProperty(obj, key) == key \in DOMAIN obj

-----------------------------------------------------------------------------
(* Escaping *)

\* text.split(ch).join(repl), ch a single character
RECURSIVE SplitJoin(_, _, _)
SplitJoin(text, ch, repl) ==
  IF text = <<>> THEN <<>>
  ELSE (IF Head(text) = ch THEN repl ELSE <<Head(text)>>) \o SplitJoin(Tail(text), ch, repl)

AMP == <<"&", "a", "m", "p", ";">>
LT == <<"&", "l", "t", ";">>
GT == <<"&", "g", "t", ";">>
QUOT == <<"&", "q", "u", "o", "t", ";">>
NBSP_ENTITY == <<"&", "n", "b", "s", "p", ";">>

\* encodeContent replacing & after < and >
encodeContent_ampersandLast(text) ==
  LET t1 == SplitJoin(text, "<", LT)
      t2 == SplitJoin(t1, ">", GT)
      t3 == SplitJoin(t2, "&", AMP)
      t4 == SplitJoin(t3, NBSP, NBSP_ENTITY)
  IN SplitJoin(t4, "\n", BREAK \o <<"\n">>)

encodeContent(text) ==
  LET t1 == SplitJoin(text, "&", AMP)
      t2 == SplitJoin(t1, "<", LT)
      t3 == SplitJoin(t2, ">", GT)
      t4 == SplitJoin(t3, NBSP, NBSP_ENTITY)
  IN SplitJoin(t4, "\n", BREAK \o <<"\n">>)

encodeAttr(text) ==
  LET t1 == SplitJoin(text, "&", AMP)
      t2 == SplitJoin(t1, "<", LT)
      t3 == SplitJoin(t2, ">", GT)
  IN SplitJoin(t3, "\"", QUOT)

NullValue == <<Null>>

\* attrs: a sequence of <<name, value>> in the object's key order
RECURSIVE stringifyAttrs(_)
stringifyAttrs(attrs) ==
  IF attrs = <<>> THEN <<>>
  ELSE LET name == Head(attrs)[1]
           value == Head(attrs)[2]
       IN (IF value # NullValue
             THEN <<" ", name, "=", "\"">> \o encodeAttr(value) \o <<"\"">>
             ELSE <<>>)
          \o stringifyAttrs(Tail(attrs))

\* preserveWhitespace without the case of the last character
preserveWhitespace_notLast(text) ==
  LET length == Len(text)
  IN [i \in 1..length |->
        IF text[i] = " " /\ (i = 1 \/ text[i - 1] = " ")
          THEN NBSP ELSE text[i]]

preserveWhitespace(text) ==
  LET length == Len(text)
  IN [i \in 1..length |->
        IF text[i] = " " /\ (i = 1 \/ i = length \/ text[i - 1] = " ")
          THEN NBSP ELSE text[i]]

-----------------------------------------------------------------------------
(* Entity and style ranges (getEntityRanges of draft-js-utils): maximal runs *)
(* of characters with the same entity key, each split into maximal runs of *)
(* characters with the same style set.                                     *)

RECURSIVE RangesFrom(_, _)
RangesFrom(keys, start) ==
  IF start > Len(keys) THEN <<>>
  ELSE LET end == CHOOSE e \in start..Len(keys) :
                    /\ \A j \in start..e : keys[j] = keys[start]
                    /\ e = Len(keys) \/ keys[e + 1] # keys[start]
       IN <<[from |-> start, to |-> end]>> \o RangesFrom(keys, end + 1)

\* charMetaList is a sequence of [style |-> <<names>>, entity |-> key]
getStyleRanges(text, charMetaList, offset) ==
  LET rs == RangesFrom([i \in 1..Len(charMetaList) |-> charMetaList[i].style], 1)
  IN [k \in 1..Len(rs) |->
        [from |-> offset + rs[k].from, to |-> offset + rs[k].to,
         text |-> SubSeq(text, rs[k].from, rs[k].to),
         styleSet |-> charMetaList[rs[k].from].style]]

getEntityRanges(text, charMetaList) ==
  LET rs == RangesFrom([i \in 1..Len(charMetaList) |-> charMetaList[i].entity], 1)
  IN [k \in 1..Len(rs) |->
        [entityKey |-> charMetaList[rs[k].from].entity,
         stylePieces |-> getStyleRanges(SubSeq(text, rs[k].from, rs[k].to),
                                        SubSeq(charMetaList, rs[k].from, rs[k].to),
                                        rs[k].from - 1)]]

-----------------------------------------------------------------------------
(* Rendering of a block's content *)

has(styleSet, styleName) == \E i \in DOMAIN styleSet : styleSet[i] = styleName

\* one turn of the loop without the case of the code block
wrapStyle_noSkip(content, styleName, styleSet, blockType) ==
  IF has(styleSet, styleName)
    THEN LET element == IF inlineStyles[styleName] = Null THEN "span"
                        ELSE inlineStyles[styleName]
         IN <<"<" \o element \o ">">> \o content \o <<"</" \o element \o ">">>
    ELSE content

\* lines 344-363: one turn of the loop over this.styleOrder
wrapStyle(content, styleName, styleSet, blockType) ==
  IF styleName = INLINE_STYLE.CODE /\ blockType = BLOCK_TYPE.CODE THEN content
  ELSE IF has(styleSet, styleName)
    THEN LET element == IF inlineStyles[styleName] = Null THEN "span"
                        ELSE inlineStyles[styleName]
         IN <<"<" \o element \o ">">> \o content \o <<"</" \o element \o ">">>
    ELSE content

RECURSIVE wrapStyles(_, _, _, _)
wrapStyles(content, styleNames, styleSet, blockType) ==
  IF styleNames = <<>> THEN content
  ELSE wrapStyles(wrapStyle(content, Head(styleNames), styleSet, blockType),
                  Tail(styleNames), styleSet, blockType)

\* the elements nested in the order of the run's style set
renderStylePiece_setOrder(text, styleSet, blockType) ==
  LET known(styleName) == has(styleOrder, styleName)
  IN wrapStyles(encodeContent(text), SelectSeq(styleSet, known), styleSet, blockType)

\* lines 342-365: the callback of stylePieces.map
renderStylePiece(text, styleSet, blockType) ==
  wrapStyles(encodeContent(text), styleOrder, styleSet, blockType)

NoEntity == [type |-> Null, data |-> <<>>]

\* this.entityGetter(entityKey): the registry's answer, NoEntity for null/undefined
entityGetter(entityKey) ==
  IF entityKey \in DOMAIN entities THEN entities[entityKey] ELSE NoEntity

\* String.prototype.toUpperCase on the type names of the model
toUpperCase(s) ==
  CASE s = "link" -> "LINK"
    [] s = "image" -> "IMAGE"
    [] s = "mention" -> "MENTION"
    [] s = "default" -> "DEFAULT"
    [] OTHER -> s

\* DATA_ATTRIBUTE.test(dataKey), dataKey a sequence of characters
LowerAlnumDash ==
  {"a", "b", "c", "d", "e", "f", "g", "h", "i", "j", "k", "l", "m", "n", "o", "p", "q",
   "r", "s", "t", "u", "v", "w", "x", "y", "z", "0", "1", "2", "3", "4", "5", "6", "7",
   "8", "9", "-"}

DATA_ATTRIBUTE(dataKey) ==
  /\ Len(dataKey) > Len(<<"d", "a", "t", "a", "-">>)
  /\ SubSeq(dataKey, 1, Len(<<"d", "a", "t", "a", "-">>)) = <<"d", "a", "t", "a", "-">>
  /\ \A i \in DOMAIN dataKey : dataKey[i] \in LowerAlnumDash

\* attrs[key] = value on an object kept as a sequence of <<key, value>>
AttrPut(attrs, key, value) ==
  IF \E i \in DOMAIN attrs : attrs[i][1] = key
    THEN [i \in DOMAIN attrs |-> IF attrs[i][1] = key THEN <<key, value>> ELSE attrs[i]]
    ELSE Append(attrs, <<key, value>>)

\* lines 94-102: the loop over Object.keys(data); data is a sequence of
\* <<dataKey, dataValue>>, dataKey a sequence of characters
RECURSIVE DataToAttrLoop(_, _, _)
DataToAttrLoop(data, attrMap, attrs) ==
  IF data = <<>> THEN attrs
  ELSE LET dataKey == Head(data)[1]
           dataValue == Head(data)[2]
           next == IF hasOwnProperty(attrMap, Join(dataKey))
                     THEN AttrPut(attrs, attrMap[Join(dataKey)], dataValue)
                   ELSE IF DATA_ATTRIBUTE(dataKey)
                     THEN AttrPut(attrs, Join(dataKey), dataValue)
                   ELSE attrs
       IN DataToAttrLoop(Tail(data), attrMap, next)

\* the attributes without the table of the entity's type
DATA_TO_ATTR_noTable(entityType, entity) ==
  DataToAttrLoop(entity.data, EmptyObject, <<>>)

\* DATA_TO_ATTR(this.entityAttributesMap).DEFAULT; this.entityAttributesMap is
\* the module's ENTITY_ATTR_MAP object itself (line 175)
DATA_TO_ATTR(entityType, entity) ==
  LET attrMap == IF hasOwnProperty(ENTITY_ATTR_MAP, entityType)
                   THEN ENTITY_ATTR_MAP[entityType] ELSE EmptyObject
  IN DataToAttrLoop(entity.data, attrMap, <<>>)

\* this.entityAttributesRendererMap (lines 176-182): a fresh object per call
entityAttributesRendererMap ==
  IF hasOwnProperty(options, "entityAttributesRendererMap")
    THEN ObjectAssign([DEFAULT |-> "DATA_TO_ATTR"], options.entityAttributesRendererMap)
    ELSE [DEFAULT |-> "DATA_TO_ATTR"]

\* An attribute renderer is named; "DATA_TO_ATTR" is the built-in one and a
\* caller's renderer "NONE" returns null.
CallAttributesRenderer(name, entityType, entity) ==
  IF name = "DATA_TO_ATTR" THEN DATA_TO_ATTR(entityType, entity) ELSE <<>>

\* lines 82-84 and one formatter of a caller, "MARK"
CallFormatter(name, content, attrString, entityData) ==
  CASE name = "LINK" -> <<"<a">> \o attrString \o <<">">> \o content \o <<"</a>">>
    [] name = "IMAGE" -> <<"<img">> \o attrString \o <<"/>">>
    [] name = "DEFAULT" -> <<"<span$attrString}>">> \o content \o <<"</span>">>
    [] OTHER -> <<"<mark>">> \o content \o <<"</mark>">>

\* lines 366-368: the upper-cased type of the entity the key resolves to
resolveEntity(entityKey) == IF entityKey # Null THEN entityGetter(entityKey) ELSE NoEntity

resolveType(entityKey) ==
  IF resolveEntity(entityKey) = NoEntity THEN Null
  ELSE toUpperCase(resolveEntity(entityKey).type)

\* every range with an entity key handed to a formatter
isFormatted_anyKey(entityKey) == entityKey # Null

\* line 369: the range is handed to a formatter
isFormatted(entityKey) ==
  resolveType(entityKey) # Null /\ hasOwnProperty(ENTITY_FORMATTER_MAP, resolveType(entityKey))

\* lines 373-374
entityAttrs(entityKey) ==
  LET entity == resolveEntity(entityKey)
      entityType == resolveType(entityKey)
  IN IF hasOwnProperty(entityAttributesRendererMap, entityType)
       THEN CallAttributesRenderer(entityAttributesRendererMap[entityType],
                                   entityType, entity)
       ELSE CallAttributesRenderer(entityAttributesRendererMap.DEFAULT, entityType, entity)

\* lines 366-377: the rest of the callback of entityPieces.map
renderEntity(entityKey, content) ==
  LET entity == resolveEntity(entityKey)
      entityType == resolveType(entityKey)
  IN IF ~isFormatted(entityKey) THEN content
     ELSE IF hasOwnProperty(ENTITY_FORMATTER_MAP, entityType)
       THEN CallFormatter(ENTITY_FORMATTER_MAP[entityType], content,
                          stringifyAttrs(entityAttrs(entityKey)), entity.data)
       ELSE CallFormatter(ENTITY_FORMATTER_MAP.DEFAULT, content,
                          stringifyAttrs(entityAttrs(entityKey)), entity.data)

\* lines 373-377: the attribute renderer and the formatter that are called
\* for the range, by name (none after the return of line 370)
invoked(entityKey) ==
  LET entityType == resolveType(entityKey)
  IN IF ~isFormatted(entityKey) THEN <<>>
     ELSE <<IF hasOwnProperty(entityAttributesRendererMap, entityType)
              THEN entityAttributesRendererMap[entityType]
              ELSE entityAttributesRendererMap.DEFAULT,
            IF hasOwnProperty(ENTITY_FORMATTER_MAP, entityType)
              THEN ENTITY_FORMATTER_MAP[entityType]
              ELSE ENTITY_FORMATTER_MAP.DEFAULT>>

RECURSIVE Flatten(_)
Flatten(seqs) == IF seqs = <<>> THEN <<>> ELSE Head(seqs) \o Flatten(Tail(seqs))

\* lines 338-379 with the intermediate values kept: for each entity range its
\* key, its style pieces (place in the text, text after preserveWhitespace,
\* style set, markup), the attributes given to its formatter and its markup
renderPieces(block) ==
  LET text == preserveWhitespace(block.text)
      entityPieces == getEntityRanges(text, block.charMetaList)
  IN [k \in 1..Len(entityPieces) |->
        LET stylePieces ==
              [j \in 1..Len(entityPieces[k].stylePieces) |->
                 LET p == entityPieces[k].stylePieces[j]
                 IN [from |-> p.from, to |-> p.to, text |-> p.text,
                     styleSet |-> p.styleSet,
                     html |-> renderStylePiece(p.text, p.styleSet, block.type)]]
            content == Flatten([j \in 1..Len(stylePieces) |-> stylePieces[j].html])
            entityKey == entityPieces[k].entityKey
        IN [entityKey |-> entityKey,
            stylePieces |-> stylePieces,
            content |-> content,
            attrs |-> IF isFormatted(entityKey) THEN entityAttrs(entityKey) ELSE <<>>,
            invoked |-> invoked(entityKey),
            html |-> renderEntity(entityKey, content)]]

\* renderBlockContent without the case of the empty text
renderBlockContent_noBreak(block) ==
  LET ps == renderPieces(block)
  IN Flatten([k \in 1..Len(ps) |-> ps[k].html])

renderBlockContent(block) ==
  IF block.text = <<>> THEN BREAK
  ELSE LET ps == renderPieces(block)
       IN Flatten([k \in 1..Len(ps) |-> ps[k].html])

-----------------------------------------------------------------------------
(* The generator's methods, as functions of the fields they read and write: *)
(* st = [output, indentLevel, wrapperTag, currentBlock]                     *)

This ==
  [output |-> output, indentLevel |-> indentLevel, wrapperTag |-> wrapperTag,
   currentBlock |-> currentBlock]

push(st, frag) == [st EXCEPT !.output = Append(@, frag)]

indent(st) == push(st, IndentFrag(st.indentLevel))

openWrapperTag(st, tag) ==
  LET s1 == [st EXCEPT !.wrapperTag = tag]
      s2 == indent(s1)
      s3 == push(push(s2, OpenFrag(tag)), NewLine)
  IN [s3 EXCEPT !.indentLevel = @ + 1]

\* closeWrapperTag leaving the level as it is
closeWrapperTag_keepLevel(st) ==
  IF st.wrapperTag # Null
    THEN LET s2 == indent(st)
             s3 == push(push(s2, CloseFrag(st.wrapperTag)), NewLine)
         IN [s3 EXCEPT !.wrapperTag = Null]
    ELSE st

closeWrapperTag(st) ==
  IF st.wrapperTag # Null
    THEN LET s1 == [st EXCEPT !.indentLevel = @ - 1]
             s2 == indent(s1)
             s3 == push(push(s2, CloseFrag(st.wrapperTag)), NewLine)
         IN [s3 EXCEPT !.wrapperTag = Null]
    ELSE st

RECURSIVE pushAll(_, _)
pushAll(st, frags) ==
  IF frags = <<>> THEN st ELSE pushAll(push(st, Head(frags)), Tail(frags))

Reverse(s) == [i \in 1..Len(s) |-> s[Len(s) + 1 - i]]

\* options.blockStyleFn is not set in the calls of the model: attrString = ''
writeStartTag(st, block) ==
  LET tags == getTags(block.type)
  IN pushAll(st, [i \in 1..Len(tags) |-> OpenFrag(tags[i])])

\* writeEndTag closing the tags in the order they were opened
writeEndTag_sameOrder(st, block) ==
  LET tags == getTags(block.type)
  IN push(pushAll(st, [i \in 1..Len(tags) |-> CloseFrag(tags[i])]), NewLine)

writeEndTag(st, block) ==
  LET tags == getTags(block.type)
  IN IF Len(tags) = 1
       THEN push(push(st, CloseFrag(tags[1])), NewLine)
       ELSE push(pushAll(st, [i \in 1..Len(tags) |-> CloseFrag(Reverse(tags)[i])]), NewLine)

\* the required wrapper opened without the open one being closed
switchWrapper_noClose(st, blockType) ==
  LET newWrapperTag == getWrapperTag(blockType)
      s2 == IF st.wrapperTag # newWrapperTag /\ newWrapperTag # Null
              THEN openWrapperTag(st, newWrapperTag) ELSE st
  IN indent(s2)

\* lines 214-223: the wrapper is switched, then the block's line is indented
switchWrapper(st, blockType) ==
  LET newWrapperTag == getWrapperTag(blockType)
      s1 == IF st.wrapperTag # newWrapperTag /\ st.wrapperTag # Null
              THEN closeWrapperTag(st) ELSE st
      s2 == IF st.wrapperTag # newWrapperTag /\ newWrapperTag # Null
              THEN openWrapperTag(s1, newWrapperTag) ELSE s1
  IN indent(s2)

\* A caller's block renderer is named: "STRING" returns a fixed string for
\* every block, "NULL" returns null for every block, "TEXT" returns a string
\* for a block with text and null for an empty one.
CallBlockRenderer(name, block) ==
  CASE name = "STRING" -> "<hr/>"
    [] name = "TEXT" -> IF block.text = <<>> THEN Null ELSE "<custom/>"
    [] OTHER -> Null

\* a registered renderer's null taken for an empty string
customRendererOutput_registered(block) ==
  LET customRenderer ==
        IF hasOwnProperty(options, "blockRenderers")
           /\ hasOwnProperty(options.blockRenderers, block.type)
          THEN options.blockRenderers[block.type] ELSE Null
  IN IF customRenderer # Null
       THEN (IF CallBlockRenderer(customRenderer, block) = Null THEN ""
             ELSE CallBlockRenderer(customRenderer, block))
       ELSE Null

\* lines 225-228
customRendererOutput(block) ==
  LET customRenderer ==
        IF hasOwnProperty(options, "blockRenderers")
           /\ hasOwnProperty(options.blockRenderers, block.type)
          THEN options.blockRenderers[block.type] ELSE Null
  IN IF customRenderer # Null THEN CallBlockRenderer(customRenderer, block) ELSE Null

\* lines 230-235
renderCustom(st, rendered) ==
  LET s1 == push(push(st, RawFrag(rendered)), NewLine)
  IN [s1 EXCEPT !.currentBlock = @ + 1]

totalBlocks == Len(blocks)

\* this.blocks[i], i 0-based
BlockAt(i) == blocks[i + 1]
HasBlock(i) == i >= 0 /\ i < Len(blocks)

\* the lookahead comparing the next block's depth with the block's own
willNest_sameDepth(st, block) ==
  /\ canHaveDepth(block.type)
  /\ HasBlock(st.currentBlock + 1)
  /\ BlockAt(st.currentBlock + 1).depth = block.depth

\* lines 239-244
willNest(st, block) ==
  /\ canHaveDepth(block.type)
  /\ HasBlock(st.currentBlock + 1)
  /\ BlockAt(st.currentBlock + 1).depth = block.depth + 1

\* lines 236-237
startBlock(st, block) ==
  push(writeStartTag(st, block), ContentFrag(renderBlockContent(block)))

\* the nested run entered without moving the cursor past the list item
enterNested_noAdvance(st) ==
  LET s1 == push(st, NewLine)
  IN [s1 EXCEPT !.wrapperTag = Null, !.indentLevel = @ + 1]

\* lines 245-251: up to the call of processBlocksAtDepth
enterNested(st) ==
  LET s1 == push(st, NewLine)
  IN [s1 EXCEPT !.wrapperTag = Null, !.indentLevel = @ + 1, !.currentBlock = @ + 1]

\* the return from the nested run without the stashed wrapper put back
leaveNested_noRestore(st, thisWrapperTag, block) ==
  LET s1 == [st EXCEPT !.indentLevel = @ - 1]
  IN writeEndTag(indent(s1), block)

\* lines 253-255 and 259: after processBlocksAtDepth has returned
leaveNested(st, thisWrapperTag, block) ==
  LET s1 == [st EXCEPT !.wrapperTag = thisWrapperTag, !.indentLevel = @ - 1]
  IN writeEndTag(indent(s1), block)

\* lines 257 and 259
finishBlock(st, block) ==
  writeEndTag([st EXCEPT !.currentBlock = @ + 1], block)

-----------------------------------------------------------------------------
(* The steps of a call.  A frame of the stack is the loop of generate       *)
(* ("generate"), a processBlock waiting for its nested run ("processBlock") *)
(* or the loop of processBlocksAtDepth ("processBlocksAtDepth").            *)

Frame(k, depth, block, thisWrapperTag) ==
  [k |-> k, depth |-> depth, block |-> block, thisWrapperTag |-> thisWrapperTag]

Top == stack[Len(stack)]
Pop(s) == SubSeq(s, 1, Len(s) - 1)

\* the loop of processBlocksAtDepth going on for the deeper blocks as well
LoopContinues_deeper ==
  /\ pc = "run"
  /\ stack # <<>>
  /\ \/ Top.k = "generate" /\ currentBlock < totalBlocks
     \/ /\ Top.k = "processBlocksAtDepth"
        /\ HasBlock(currentBlock)
        /\ BlockAt(currentBlock).depth >= Top.depth

\* the loop on top of the stack goes round once more
LoopContinues ==
  /\ pc = "run"
  /\ stack # <<>>
  /\ \/ Top.k = "generate" /\ currentBlock < totalBlocks
     \/ /\ Top.k = "processBlocksAtDepth"
        /\ HasBlock(currentBlock)
        /\ BlockAt(currentBlock).depth = Top.depth

\* The conditions under which each step is the next one of the call
CanGenerate == pc = "new"

CanProcessBlockCustom ==
  /\ LoopContinues
  /\ customRendererOutput(BlockAt(currentBlock)) # Null

CanProcessBlockFlat ==
  /\ LoopContinues
  /\ customRendererOutput(BlockAt(currentBlock)) = Null
  /\ ~willNest(switchWrapper(This, BlockAt(currentBlock).type), BlockAt(currentBlock))

CanProcessBlockNest ==
  /\ LoopContinues
  /\ customRendererOutput(BlockAt(currentBlock)) = Null
  /\ willNest(switchWrapper(This, BlockAt(currentBlock).type), BlockAt(currentBlock))

CanProcessBlocksAtDepthReturn ==
  /\ pc = "run"
  /\ stack # <<>>
  /\ Top.k = "processBlocksAtDepth"
  /\ ~LoopContinues

CanProcessBlockReturn ==
  /\ pc = "run"
  /\ stack # <<>>
  /\ Top.k = "processBlock"

CanGenerateReturn ==
  /\ pc = "run"
  /\ stack # <<>>
  /\ Top.k = "generate"
  /\ ~LoopContinues

Set(st) ==
  /\ output' = st.output
  /\ indentLevel' = st.indentLevel
  /\ wrapperTag' = st.wrapperTag
  /\ currentBlock' = st.currentBlock
  /\ owner' = owner \o [i \in 1..(Len(st.output) - Len(output)) |-> currentBlock + 1]

Input == <<blocks, options, entities, inlineStyles, styleOrder>>
Tables == <<ENTITY_FORMATTER_MAP, ENTITY_ATTR_MAP>>

\* lines 197-202
Generate ==
  /\ CanGenerate
  /\ pc' = "run"
  /\ output' = <<>>
  /\ currentBlock' = 0
  /\ indentLevel' = 0
  /\ wrapperTag' = Null
  /\ stack' = <<Frame("generate", 0, 0, Null)>>
  /\ owner' = <<>>
  /\ order' = <<>>
  /\ pieces' = <<>>
  /\ UNCHANGED <<Input, Tables, result, calls>>

\* processBlock, a custom renderer's output taken (lines 210-235)
ProcessBlockCustom ==
  /\ CanProcessBlockCustom
  /\ LET block == BlockAt(currentBlock)
         rendered == customRendererOutput(block)
     IN /\ Set(renderCustom(switchWrapper(This, block.type), rendered))
        /\ order' = Append(order, currentBlock + 1)
        /\ pieces' = Append(pieces, <<>>)
  /\ UNCHANGED <<Input, Tables, stack, pc, result, calls>>

\* processBlock without a nested run (lines 210-229, 236-243, 257-259)
ProcessBlockFlat ==
  /\ CanProcessBlockFlat
  /\ LET block == BlockAt(currentBlock)
         s1 == switchWrapper(This, block.type)
     IN /\ Set(finishBlock(startBlock(s1, block), block))
        /\ order' = Append(order, currentBlock + 1)
        /\ pieces' = Append(pieces, IF block.text = <<>> THEN <<>> ELSE renderPieces(block))
  /\ UNCHANGED <<Input, Tables, stack, pc, result, calls>>

\* processBlock up to its call of processBlocksAtDepth (lines 210-229, 236-252)
ProcessBlockNest ==
  /\ CanProcessBlockNest
  /\ LET block == BlockAt(currentBlock)
         s1 == switchWrapper(This, block.type)
     IN /\ Set(enterNested(startBlock(s1, block)))
        /\ order' = Append(order, currentBlock + 1)
        /\ pieces' = Append(pieces, IF block.text = <<>> THEN <<>> ELSE renderPieces(block))
        /\ stack' = stack \o <<Frame("processBlock", 0, currentBlock, s1.wrapperTag),
                               Frame("processBlocksAtDepth",
                                     BlockAt(currentBlock + 1).depth, 0, Null)>>
  /\ UNCHANGED <<Input, Tables, pc, result, calls>>

\* processBlocksAtDepth leaves its loop and returns (lines 264, 268) ...
ProcessBlocksAtDepthReturn ==
  /\ CanProcessBlocksAtDepthReturn
  /\ LET st == closeWrapperTag(This)
     IN /\ output' = st.output
        /\ indentLevel' = st.indentLevel
        /\ wrapperTag' = st.wrapperTag
        /\ currentBlock' = st.currentBlock
        /\ owner' = owner \o [i \in 1..(Len(st.output) - Len(output)) |-> 0]
  /\ stack' = Pop(stack)
  /\ UNCHANGED <<Input, Tables, pc, result, order, pieces, calls>>

\* ... to the processBlock that called it (lines 253-255, 259)
ProcessBlockReturn ==
  /\ CanProcessBlockReturn
  /\ LET st == leaveNested(This, Top.thisWrapperTag, BlockAt(Top.block))
     IN /\ output' = st.output
        /\ indentLevel' = st.indentLevel
        /\ wrapperTag' = st.wrapperTag
        /\ currentBlock' = st.currentBlock
        /\ owner' = owner \o [i \in 1..(Len(st.output) - Len(output)) |-> Top.block + 1]
  /\ stack' = Pop(stack)
  /\ UNCHANGED <<Input, Tables, pc, result, order, pieces, calls>>

\* generate leaves its loop and returns (lines 203, 206-207)
GenerateReturn ==
  /\ CanGenerateReturn
  /\ LET st == closeWrapperTag(This)
     IN /\ output' = st.output
        /\ indentLevel' = st.indentLevel
        /\ wrapperTag' = st.wrapperTag
        /\ currentBlock' = st.currentBlock
        /\ owner' = owner \o [i \in 1..(Len(st.output) - Len(output)) |-> 0]
        /\ result' = JoinTrim(st.output)
        /\ calls' = Append(calls, [blocks |-> blocks, options |-> options,
                                   entities |-> entities, result |-> JoinTrim(st.output)])
  /\ stack' = <<>>
  /\ pc' = "done"
  /\ UNCHANGED <<Input, Tables, order, pieces>>

-----------------------------------------------------------------------------
(* The constructor *)

\* helpers/combineOrderedStyles: customMap is a sequence of <<styleName, element>>
\* in the object's key order, or absent
RECURSIVE combineOrderedStyles(_, _, _)
combineOrderedStyles(customMap, styleMap, names) ==
  IF customMap = <<>> THEN [inlineStyles |-> styleMap, styleOrder |-> names]
  ELSE LET styleName == Head(customMap)[1]
           element == Head(customMap)[2]
       IN combineOrderedStyles(
            Tail(customMap),
            ObjectAssign(styleMap, [n \in {styleName} |-> element]),
            IF hasOwnProperty(DEFAULT_STYLE_MAP, styleName) THEN names
            ELSE Append(names, styleName))

\* lines 178-182, for the two tables that are the module's own objects
assignedFormatterMap(opts, table) ==
  IF hasOwnProperty(opts, "entityFormatterMap")
    THEN ObjectAssign(table, opts.entityFormatterMap) ELSE table

assignedAttrMap(opts, table) ==
  IF hasOwnProperty(opts, "entityAttributesMap")
    THEN ObjectAssign(table, opts.entityAttributesMap) ELSE table

\* new MarkupGenerator(content, opts), the entity registry holding ents and
\* the module's tables being formatterMap and attrMap: the fields of the new
\* generator and the tables afterwards
constructor(content, opts, ents, formatterMap, attrMap) ==
  LET styles == combineOrderedStyles(
                  IF hasOwnProperty(opts, "inlineStyles") THEN opts.inlineStyles ELSE <<>>,
                  DEFAULT_STYLE_MAP, DEFAULT_STYLE_ORDER)
  IN [blocks |-> content,
      options |-> opts,
      entities |-> ents,
      ENTITY_FORMATTER_MAP |-> assignedFormatterMap(opts, formatterMap),
      ENTITY_ATTR_MAP |-> assignedAttrMap(opts, attrMap),
      inlineStyles |-> styles.inlineStyles,
      styleOrder |-> styles.styleOrder]

\* the state is the one the constructor has left
Constructed(content, opts, ents, formatterMap, attrMap) ==
  LET new == constructor(content, opts, ents, formatterMap, attrMap)
  IN /\ blocks = new.blocks
     /\ options = new.options
     /\ entities = new.entities
     /\ ENTITY_FORMATTER_MAP = new.ENTITY_FORMATTER_MAP
     /\ ENTITY_ATTR_MAP = new.ENTITY_ATTR_MAP
     /\ inlineStyles = new.inlineStyles
     /\ styleOrder = new.styleOrder

Unset ==
  /\ output = <<>>
  /\ currentBlock = 0
  /\ indentLevel = 0
  /\ wrapperTag = Null
  /\ stack = <<>>
  /\ result = ""
  /\ owner = <<>>
  /\ order = <<>>
  /\ pieces = <<>>

-----------------------------------------------------------------------------
(* Documents *)

PlainMeta(text) == [i \in 1..Len(text) |-> [style |-> <<>>, entity |-> Null]]

Block(type, depth, text, charMetaList) ==
  [type |-> type, depth |-> depth, text |-> text, charMetaList |-> charMetaList]

NoEntities == [k \in {} |-> NoEntity]
NoOptions == [k \in {} |-> Null]

-----------------------------------------------------------------------------
(* Spec: one call on a document of up to MaxBlocks blocks of plain text,    *)
(* with or without block renderers                                          *)

NestingTypes ==
  {BLOCK_TYPE.UNSTYLED, BLOCK_TYPE.UNORDERED_LIST_ITEM, BLOCK_TYPE.ORDERED_LIST_ITEM,
   BLOCK_TYPE.CODE}

NestingBlocks ==
  {Block(type, depth, text, PlainMeta(text)) :
     type \in NestingTypes, depth \in 0..MaxDepth, text \in {<<>>, <<"x">>}}

\* lists of one more item, for the runs that end before the document does
LongLists ==
  [1..(MaxBlocks + 1) ->
     {Block(BLOCK_TYPE.UNORDERED_LIST_ITEM, depth, <<"x">>, PlainMeta(<<"x">>)) :
        depth \in 0..MaxDepth}]

NestingDocuments == UNION {[1..n -> NestingBlocks] : n \in 0..MaxBlocks} \cup LongLists

NestingOptions ==
  {NoOptions,
   [blockRenderers |-> [t \in {BLOCK_TYPE.UNORDERED_LIST_ITEM} |-> "TEXT"]],
   [blockRenderers |-> [t \in {BLOCK_TYPE.UNSTYLED, BLOCK_TYPE.ORDERED_LIST_ITEM} |->
                          IF t = BLOCK_TYPE.UNSTYLED THEN "STRING" ELSE "NULL"]]}

Init ==
  /\ \E content \in NestingDocuments, opts \in NestingOptions :
       Constructed(content, opts, NoEntities,
                   DEFAULT_ENTITY_FORMATTER_MAP, DEFAULT_ENTITY_ATTR_MAP)
  /\ Unset
  /\ pc = "new"
  /\ calls = <<>>

Next ==
  \/ Generate
  \/ ProcessBlockCustom
  \/ ProcessBlockFlat
  \/ ProcessBlockNest
  \/ ProcessBlocksAtDepthReturn
  \/ ProcessBlockReturn
  \/ GenerateReturn

Spec == Init /\ [][Next]_vars

-----------------------------------------------------------------------------
(* Reading the output *)

IsWrapperFrag(f) == f.k \in {"open", "close"} /\ f.t \in {"ul", "ol"}

\* The positions of the start tags still open after fs[p..], given those open
\* before; <<0>> when an end tag does not match the innermost open start tag.
RECURSIVE Unclosed(_, _, _)
Unclosed(fs, p, open) ==
  IF p > Len(fs) THEN open
  ELSE IF fs[p].k = "open" THEN Unclosed(fs, p + 1, Append(open, p))
  ELSE IF fs[p].k = "close"
    THEN IF open # <<>> /\ fs[open[Len(open)]].t = fs[p].t
           THEN Unclosed(fs, p + 1, SubSeq(open, 1, Len(open) - 1))
           ELSE <<0>>
  ELSE Unclosed(fs, p + 1, open)

\* The innermost start tag open just before position p (0 if none)
EnclosingOpen(p) ==
  LET open == Unclosed(SubSeq(output, 1, p - 1), 1, <<>>)
  IN IF open = <<>> THEN 0 ELSE open[Len(open)]

OwnPositions(i) == {p \in DOMAIN output : owner[p] = i}
\* what block i wrote apart from wrapper tags and their lines
ContentPositions(i) == {p \in OwnPositions(i) : output[p].k = "content"}
EndPositions(i) == {p \in OwnPositions(i) : output[p].k = "close" /\ ~IsWrapperFrag(output[p])}
StartPositions(i) ==
  {p \in OwnPositions(i) : output[p].k \in {"open", "raw"} /\ ~IsWrapperFrag(output[p])}

Min(S) == CHOOSE x \in S : \A y \in S : x <= y
Max(S) == CHOOSE x \in S : \A y \in S : x >= y

NoBlockRenderers == ~hasOwnProperty(options, "blockRenderers")

\* what the renderer registered for block i's type returns for it (Null if
\* none is registered)
RendererRegistered(i) ==
  /\ hasOwnProperty(options, "blockRenderers")
  /\ hasOwnProperty(options.blockRenderers, blocks[i].type)
RendererOutput(i) ==
  IF RendererRegistered(i)
    THEN CallBlockRenderer(options.blockRenderers[blocks[i].type], blocks[i]) ELSE Null
CustomRendered(i) == RendererOutput(i) # Null

\* What was written for block i itself: the fragments of its processBlock
\* call after the wrapper tags (each on a line of its own) that the call
\* closed or opened first.
OwnMarkup(i) ==
  LET wrappers == {p \in OwnPositions(i) : IsWrapperFrag(output[p])}
      first == IF wrappers = {} THEN 0 ELSE Max(wrappers) + 1
  IN SelectSeq([p \in DOMAIN output |-> IF owner[p] = i /\ p > first THEN output[p]
                                        ELSE Frag("", "", 0, <<>>)],
               LAMBDA f : f.k # "")

IsIndent(f) == f.k = "indent"

StartTags(i) == [k \in 1..Len(getTags(blocks[i].type)) |-> OpenFrag(getTags(blocks[i].type)[k])]
EndTags(i) ==
  LET tags == getTags(blocks[i].type)
  IN [k \in 1..Len(tags) |-> CloseFrag(tags[Len(tags) + 1 - k])]

\* block i is a list item followed by a block one level deeper
FollowedByDeeper(i) ==
  /\ canHaveDepth(blocks[i].type)
  /\ i < Len(blocks)
  /\ blocks[i + 1].depth = blocks[i].depth + 1

\* the markup of a block rendered by the generator itself, its text content
\* being content: on one line, or around the lines of its nested run
IsElementMarkup(m, i, content) ==
  /\ m # <<>>
  /\ IsIndent(m[1])
  /\ IF FollowedByDeeper(i)
       THEN /\ Len(m) > 3
            /\ SubSeq(m, 2, Len(m) - 1)
                 = StartTags(i) \o <<ContentFrag(content), NewLine, m[1]>> \o EndTags(i)
       ELSE SubSeq(m, 2, Len(m) - 1) = StartTags(i) \o <<ContentFrag(content)>> \o EndTags(i)
  /\ m[Len(m)] = NewLine

-----------------------------------------------------------------------------
(* C1 *)

\* C1: in a call without block renderers, no end tag is ever written that
\* does not match the innermost start tag still open, and when generate()
\* has returned every start tag written (ul, ol and the blocks' own tags,
\* the two of a code block included) has been closed.
C1_TagsBalanced ==
  NoBlockRenderers =>
    /\ Unclosed(output, 1, <<>>) # <<0>>
    /\ pc = "done" => Unclosed(output, 1, <<>>) = <<>>

C1_Witness ==
  /\ pc = "done"
  /\ NoBlockRenderers
  /\ Len(blocks) = 3
  /\ blocks[1].type = BLOCK_TYPE.UNORDERED_LIST_ITEM /\ blocks[1].depth = 0
  /\ blocks[2].type = BLOCK_TYPE.CODE /\ blocks[2].depth = 1
  /\ blocks[3].type = BLOCK_TYPE.ORDERED_LIST_ITEM /\ blocks[3].depth = 2
  /\ \E p \in DOMAIN output : output[p] = CloseFrag("pre")
  /\ Unclosed(output, 1, <<>>) = <<>>

-----------------------------------------------------------------------------
(* C2 *)

\* the blocks that follow block i without a break at the depth after i's
NestedRun(i) ==
  {j \in (i + 1)..Len(blocks) :
     \A k \in (i + 1)..j : blocks[k].depth = blocks[i].depth + 1}

\* everything written for block j lies after i's content and before i's end tag
InsideElement(i, j) ==
  /\ ContentPositions(i) # {}
  /\ EndPositions(i) # {}
  /\ \A p \in OwnPositions(j) : Max(ContentPositions(i)) < p /\ p < Min(EndPositions(i))

\* block j's own markup sits directly in a wrapper that was opened inside i's element
InOwnWrapper(i, j) ==
  /\ ContentPositions(i) # {}
  /\ StartPositions(j) # {}
  /\ LET w == EnclosingOpen(Min(StartPositions(j)))
     IN /\ w > Max(ContentPositions(i))
        /\ IsWrapperFrag(output[w])

ThreeItems ==
  [i \in 1..3 |-> Block(BLOCK_TYPE.UNORDERED_LIST_ITEM, IF i = 1 THEN 0 ELSE 1, <<"x">>,
                        PlainMeta(<<"x">>))]

ThreeItemsMarkup ==
  "<ul>\n  <li>x\n    <ul>\n      <li>x</li>\n      <li>x</li>\n    </ul>\n  </li>\n</ul>"

\* C2 as claimed: after a list item at depth d followed by a block at depth
\* d+1, the whole run at depth d+1 is written inside the list item's element,
\* enclosed in its own wrapper.
C2_Original ==
  pc = "done" =>
    \A i \in 1..(Len(blocks) - 1) :
      canHaveDepth(blocks[i].type) /\ blocks[i + 1].depth = blocks[i].depth + 1 =>
        \A j \in NestedRun(i) : InsideElement(i, j) /\ InOwnWrapper(i, j)

\* C2 as amended: the same for a list item that no block renderer rendered;
\* the list items of the run sit in a wrapper of their type opened inside the
\* list item's element, the other blocks of the run sit directly in that
\* element; and the three items at depths 0, 1, 1 give the nested markup.
C2_NestedRunInsideItem ==
  pc = "done" =>
    /\ \A i \in 1..(Len(blocks) - 1) :
         /\ canHaveDepth(blocks[i].type)
         /\ blocks[i + 1].depth = blocks[i].depth + 1
         /\ ~CustomRendered(i)
         => \A j \in NestedRun(i) :
              /\ InsideElement(i, j)
              /\ IF canHaveDepth(blocks[j].type)
                   THEN /\ InOwnWrapper(i, j)
                        /\ output[EnclosingOpen(Min(StartPositions(j)))].t
                             = getWrapperTag(blocks[j].type)
                   ELSE EnclosingOpen(Min(StartPositions(j))) = Min(StartPositions(i))
    /\ blocks = ThreeItems /\ NoBlockRenderers => result = ThreeItemsMarkup

C2_Witness ==
  /\ pc = "done"
  /\ blocks = ThreeItems
  /\ NoBlockRenderers
  /\ NestedRun(1) = {2, 3}
  /\ InsideElement(1, 2) /\ InsideElement(1, 3)
  /\ InOwnWrapper(1, 2) /\ InOwnWrapper(1, 3)

-----------------------------------------------------------------------------
(* C5 *)

Last(s) == s[Len(s)]
Done(i) == \E k \in DOMAIN order : order[k] = i

\* C5: a block whose renderer returned a string contributes its indentation,
\* that string and a newline, nothing else (no tag, no content, no nested
\* run), and the cursor moves on by one; a block whose renderer returned null is
\* rendered as a block without renderer is (start tags, content, the nested
\* run if it is a list item followed by a deeper block, end tags).
C5_CustomRenderer ==
  /\ \A i \in DOMAIN blocks :
       Done(i) /\ CustomRendered(i) =>
         /\ Len(OwnMarkup(i)) = 3
         /\ IsIndent(OwnMarkup(i)[1])
         /\ OwnMarkup(i)[2] = RawFrag(RendererOutput(i))
         /\ OwnMarkup(i)[3] = NewLine
  /\ order # <<>> /\ CustomRendered(Last(order)) => currentBlock = Last(order)
  /\ pc = "done" =>
       \A i \in DOMAIN blocks :
         RendererRegistered(i) /\ ~CustomRendered(i) =>
           IsElementMarkup(OwnMarkup(i), i, renderBlockContent(blocks[i]))

\* a rendered list item is followed by a deeper block, and a block whose
\* renderer returned null has been rendered too
C5_Witness ==
  /\ pc = "done"
  /\ Len(blocks) = 3
  /\ CustomRendered(1) /\ FollowedByDeeper(1)
  /\ OwnMarkup(1) = <<IndentFrag(1), RawFrag("<custom/>"), NewLine>>
  /\ RendererRegistered(2) /\ ~CustomRendered(2)
  /\ IsElementMarkup(OwnMarkup(2), 2, BREAK)

-----------------------------------------------------------------------------
(* C6 *)

\* what is left to do: the blocks not yet entered, the frames to return from
\* and the start of generate()
Remaining ==
  (Len(blocks) - currentBlock) + (Len(blocks) - currentBlock) + (Len(blocks) - currentBlock)
    + Len(stack) + (IF pc = "new" THEN Len(<<"generate", "return">>) ELSE 0)

\* one of the steps of the call can be taken
CanStep ==
  \/ CanGenerate
  \/ CanProcessBlockCustom \/ CanProcessBlockFlat \/ CanProcessBlockNest
  \/ CanProcessBlocksAtDepthReturn \/ CanProcessBlockReturn
  \/ CanGenerateReturn

\* C6: generate() returns, because a call that has not returned can always
\* take a step and every step leaves less to do; processBlock is entered for
\* the blocks one by one in document order, each time for the block at the
\* cursor, and moves the cursor forward; the cursor never moves back, and it
\* is the number of blocks when generate() has returned.
C6_EveryBlockOnce ==
  /\ [](pc # "done" => CanStep)
  /\ [](Remaining >= 0)
  /\ [][Remaining' < Remaining]_vars
  /\ [](order = [k \in 1..Len(order) |-> k])
  /\ [](pc = "done" => Len(order) = Len(blocks) /\ currentBlock = Len(blocks))
  /\ [][/\ currentBlock' >= currentBlock
        /\ order' # order /\ pc' = "run" =>
             order' = Append(order, currentBlock + 1) /\ currentBlock' > currentBlock]_vars

C6_Witness ==
  /\ pc = "done"
  /\ order = <<1, 2, 3>>
  /\ currentBlock = 3
  /\ FollowedByDeeper(1) /\ FollowedByDeeper(2)

-----------------------------------------------------------------------------
(* C8 *)

\* C8: a block with empty text that no renderer rendered is written as its
\* start tags, one <br> and its end tags (the nested run, if any, after the
\* <br>), whatever its type.
C8_EmptyBlock ==
  pc = "done" =>
    \A i \in DOMAIN blocks :
      blocks[i].text = <<>> /\ ~CustomRendered(i) =>
        IsElementMarkup(OwnMarkup(i), i, <<"<", "b", "r", ">">>)

C8_Witness ==
  /\ pc = "done"
  /\ Len(blocks) = 3
  /\ blocks[1].text = <<>> /\ ~CustomRendered(1) /\ FollowedByDeeper(1)
  /\ blocks[2].text = <<>> /\ blocks[2].type = BLOCK_TYPE.CODE /\ ~CustomRendered(2)
  /\ JoinFrags(OwnMarkup(2)) = "    <pre><code><br></code></pre>\n"
  /\ result = "<ul>\n  <li><br>\n    <pre><code><br></code></pre>\n    <p>x</p>\n  </li>\n</ul>"

-----------------------------------------------------------------------------
(* SpecText: one call on a document of one block, whose text, inline styles *)
(* and entities vary                                                        *)

SeqsUpTo(S, n) == UNION {[1..k -> S] : k \in 0..n}

Chars(cs) == [i \in 1..Len(cs) |-> cs[i].ch]
Metas(cs) == [i \in 1..Len(cs) |-> [style |-> cs[i].style, entity |-> cs[i].entity]]

Input3(content, opts, ents) == [content |-> content, opts |-> opts, ents |-> ents]

\* texts of letters, spaces and reserved characters, each character bold or not
TextChars == {"a", " ", "&", "<", ">"}

PlainText(text) ==
  Input3(<<Block(BLOCK_TYPE.UNSTYLED, 0, text, PlainMeta(text))>>, NoOptions, NoEntities)

WhitespaceInputs ==
  {PlainText(<<"a", " ", " ", "b">>), PlainText(<<"c", "l", "i", "c", "k">>)} \cup
  {Input3(<<Block(BLOCK_TYPE.UNSTYLED, 0, Chars(cs), Metas(cs))>>, NoOptions, NoEntities) :
     cs \in SeqsUpTo([ch : TextChars, style : {<<>>, <<INLINE_STYLE.BOLD>>}, entity : {Null}],
                     MaxTextLen)}

\* one character with every style set in every iteration order, in a paragraph
\* and in a code block, with and without styles of the caller
StyleNames == {DEFAULT_STYLE_ORDER[i] : i \in DOMAIN DEFAULT_STYLE_ORDER} \cup {"HIGHLIGHT"}

OrderedSets(S) ==
  {q \in SeqsUpTo(S, Cardinality(S)) : \A i, j \in DOMAIN q : i # j => q[i] # q[j]}

StyleOptions ==
  {NoOptions,
   [inlineStyles |-> <<<<"HIGHLIGHT", Null>>>>],
   [inlineStyles |-> <<<<"HIGHLIGHT", "mark">>, <<INLINE_STYLE.BOLD, "b">>>>],
   [inlineStyles |-> <<<<INLINE_STYLE.CODE, "tt">>>>]}

StyleInputs ==
  {Input3(<<Block(type, 0, <<"a">>, <<[style |-> styleSet, entity |-> Null]>>)>>,
          opts, NoEntities) :
     type \in {BLOCK_TYPE.UNSTYLED, BLOCK_TYPE.CODE, BLOCK_TYPE.BLOCKQUOTE},
     styleSet \in OrderedSets(StyleNames),
     opts \in StyleOptions}

\* the characters "ab", each with entity "1", entity "2" or none; the entities'
\* types and data vary, and so do the caller's tables
AttrValues == {<<"x">>, <<"&">>, <<"<">>, <<">">>, <<"\"">>, <<"&", "l", "t", ";">>}

KeyUrl == <<"u", "r", "l">>
KeyFoo == <<"f", "o", "o">>
KeyDataId == <<"d", "a", "t", "a", "-", "i", "d">>
KeyClassName == <<"c", "l", "a", "s", "s", "N", "a", "m", "e">>
KeyDataUpper == <<"d", "a", "t", "a", "-", "I", "d">>
KeyData == <<"d", "a", "t", "a", "-">>
HttpsX == <<"h", "t", "t", "p", "s", ":", "/", "/", "x">>

EntityData ==
  {<<>>}
    \cup {<<<<KeyUrl, v>>>> : v \in AttrValues}
    \cup {<<<<KeyFoo, v>>, <<KeyDataId, v>>>> : v \in AttrValues}
    \cup {<<<<KeyDataUpper, <<"x">>>>, <<KeyClassName, <<"x">>>>, <<KeyData, <<"x">>>>>>}

EntitySet ==
  {NoEntity} \cup [type : {"LINK", "link", "IMAGE", "MENTION"}, data : EntityData]

EntityOptions ==
  {NoOptions,
   [entityFormatterMap |-> [t \in {"MENTION"} |-> "MARK"]],
   [entityAttributesRendererMap |-> [t \in {"LINK"} |-> "NONE"]]}

EntityInputs ==
  {Input3(<<Block(BLOCK_TYPE.UNSTYLED, 0, <<"a", "b">>,
                  <<[style |-> <<>>, entity |-> k1], [style |-> <<>>, entity |-> k2]>>)>>,
          opts,
          [k \in {"1", "2"} |-> IF k = "1" THEN e1 ELSE e2]) :
     k1 \in {Null, "1", "2"}, k2 \in {Null, "1", "2"},
     e1 \in EntitySet, e2 \in {NoEntity, [type |-> "mention", data |-> <<>>]},
     opts \in EntityOptions}

\* the text "click", all of it one link with data {url: "https://x"}
ClickInput ==
  Input3(<<Block(BLOCK_TYPE.UNSTYLED, 0, <<"c", "l", "i", "c", "k">>,
                 [i \in 1..5 |-> [style |-> <<>>, entity |-> "1"]])>>,
         NoOptions,
         [k \in {"1"} |-> [type |-> "LINK", data |-> <<<<KeyUrl, HttpsX>>>>]])

InitText ==
  /\ \E in \in WhitespaceInputs \cup StyleInputs \cup EntityInputs \cup {ClickInput} :
       Constructed(in.content, in.opts, in.ents,
                   DEFAULT_ENTITY_FORMATTER_MAP, DEFAULT_ENTITY_ATTR_MAP)
  /\ Unset
  /\ pc = "new"
  /\ calls = <<>>

NextText ==
  \/ Generate
  \/ ProcessBlockFlat
  \/ GenerateReturn

SpecText == InitText /\ [][NextText]_vars

-----------------------------------------------------------------------------
(* Reading the rendered pieces *)

\* the entity ranges rendered for block i, and all their style pieces
EntityPieces(i) == IF i \in DOMAIN pieces THEN pieces[i] ELSE <<>>
StylePieces(i) == Flatten([k \in 1..Len(EntityPieces(i)) |-> EntityPieces(i)[k].stylePieces])

\* the characters of a piece's markup, its tags left out
IsTag(token) == Len(token) > 1
TextOf(html) == SelectSeq(html, LAMBDA token : ~IsTag(token))

\* what one character of text content and of an attribute value must become
ContentEntity(c) ==
  CASE c = "&" -> <<"&", "a", "m", "p", ";">>
    [] c = "<" -> <<"&", "l", "t", ";">>
    [] c = ">" -> <<"&", "g", "t", ";">>
    [] c = NBSP -> <<"&", "n", "b", "s", "p", ";">>
    [] OTHER -> <<c>>

AttrEntity(c) ==
  CASE c = "&" -> <<"&", "a", "m", "p", ";">>
    [] c = "<" -> <<"&", "l", "t", ";">>
    [] c = ">" -> <<"&", "g", "t", ";">>
    [] c = "\"" -> <<"&", "q", "u", "o", "t", ";">>
    [] OTHER -> <<c>>

EscapedOnce(text, Entity(_)) == Flatten([i \in 1..Len(text) |-> Entity(text[i])])

AttrStringOf(attrs) ==
  Flatten([k \in 1..Len(attrs) |->
             <<" ", attrs[k][1], "=", "\"">> \o EscapedOnce(attrs[k][2], AttrEntity) \o <<"\"">>])

-----------------------------------------------------------------------------
(* C4 *)

\* C4 (as claimed): an entity range whose entity has a type, upper-cased,
\* with no formatter in the formatter map is rendered by the default
\* formatter: its style-rendered content in a span with the resolved
\* attributes.
C4_DefaultFormatter ==
  \A i \in DOMAIN pieces : \A k \in DOMAIN pieces[i] :
    LET piece == pieces[i][k]
        entity == IF piece.entityKey # Null /\ piece.entityKey \in DOMAIN entities
                    THEN entities[piece.entityKey] ELSE NoEntity
    IN entity # NoEntity /\ toUpperCase(entity.type) \notin DOMAIN ENTITY_FORMATTER_MAP =>
         piece.html = <<"<span">> \o AttrStringOf(entityAttrs(piece.entityKey)) \o <<">">>
                        \o piece.content \o <<"</span>">>

-----------------------------------------------------------------------------
(* C7 *)

StyleRank(styleName) == CHOOSE k \in DOMAIN styleOrder : styleOrder[k] = styleName

\* the styles of a piece that get an element, as a set
Wrapping(piece, blockType) ==
  {styleName \in {piece.styleSet[n] : n \in DOMAIN piece.styleSet} :
     /\ \E k \in DOMAIN styleOrder : styleOrder[k] = styleName
     /\ ~(styleName = "CODE" /\ blockType = "code-block")}

ElementOf(styleName) ==
  IF inlineStyles[styleName] = Null THEN "span" ELSE inlineStyles[styleName]

\* the r-th style from the outside: r - 1 of the others come later in the order
FromOutside(W, r) ==
  CHOOSE styleName \in W :
    Cardinality({other \in W : StyleRank(other) > StyleRank(styleName)}) = r - 1

\* C7: the elements around a style run are those of its styles, nested in the
\* configured style order with the first style of the order inner-most,
\* whatever the order of the run's style set; by default the order is bold,
\* italic, underline, strikethrough, code, and {bold, italic} gives
\* <em><strong>text</strong></em>.
C7_StyleOrder ==
  /\ ~hasOwnProperty(options, "inlineStyles") =>
       styleOrder = <<"BOLD", "ITALIC", "UNDERLINE", "STRIKETHROUGH", "CODE">>
  /\ \A i \in DOMAIN pieces : \A k \in DOMAIN StylePieces(i) :
       LET piece == StylePieces(i)[k]
           html == piece.html
           W == Wrapping(piece, blocks[i].type)
           n == Cardinality(W)
       IN /\ Len(html) = n + Len(TextOf(html)) + n
          /\ \A r \in 1..n :
               /\ html[r] = "<" \o ElementOf(FromOutside(W, r)) \o ">"
               /\ html[Len(html) + 1 - r] = "</" \o ElementOf(FromOutside(W, r)) \o ">"
          /\ /\ {piece.styleSet[m] : m \in DOMAIN piece.styleSet} = {"BOLD", "ITALIC"}
             /\ ~hasOwnProperty(options, "inlineStyles")
             => html = <<"<em>", "<strong>">> \o TextOf(html) \o <<"</strong>", "</em>">>

C7_Witness ==
  /\ pc = "done"
  /\ options = NoOptions
  /\ blocks[1].type = BLOCK_TYPE.UNSTYLED
  /\ blocks[1].text = <<"a">>
  /\ blocks[1].charMetaList[1].style = <<"ITALIC", "CODE", "BOLD">>
  /\ pieces[1][1].stylePieces[1].html
       = <<"<code>", "<em>", "<strong>", "a", "</strong>", "</em>", "</code>">>
  /\ result = "<p><code><em><strong>a</strong></em></code></p>"

-----------------------------------------------------------------------------
(* C9 *)

SpaceOut(nonBreaking) == IF nonBreaking THEN <<"&", "n", "b", "s", "p", ";">> ELSE <<" ">>

\* the text of the piece, as it must be written if the spaces for which
\* NonBreaking(from, to, position) holds become &nbsp; and the others stay
SpacesWritten(text, piece, NonBreaking(_, _, _)) ==
  Flatten([n \in 1..(piece.to - piece.from + 1) |->
             LET pos == piece.from + n - 1
             IN IF text[pos] = " " THEN SpaceOut(NonBreaking(piece.from, piece.to, pos))
                ELSE ContentEntity(text[pos])])

\* C9 (as claimed): a space is written as &nbsp; if it is the first or the
\* last character of its style run or follows another space, and as a space
\* otherwise.
C9_Original ==
  \A i \in DOMAIN pieces : \A k \in DOMAIN StylePieces(i) :
    LET text == blocks[i].text
        piece == StylePieces(i)[k]
    IN TextOf(piece.html)
         = SpacesWritten(text, piece,
                         LAMBDA from, to, pos : pos = from \/ pos = to \/ text[pos - 1] = " ")

\* C9 (as amended): a space is written as &nbsp; if it is the first or the
\* last character of the block's text or follows another space, and as a
\* space otherwise; "a  b" becomes "a &nbsp;b" and the spaces of " a " both
\* become &nbsp;.
C9_WhitespacePreserved ==
  \A i \in DOMAIN pieces :
    /\ \A k \in DOMAIN StylePieces(i) :
         LET text == blocks[i].text
             piece == StylePieces(i)[k]
         IN TextOf(piece.html)
              = SpacesWritten(text, piece,
                              LAMBDA from, to, pos :
                                pos = 1 \/ pos = Len(text) \/ text[pos - 1] = " ")
    /\ pc = "done" /\ Len(blocks) = 1 /\ blocks[1].type = "unstyled"
       /\ (\A n \in DOMAIN blocks[1].charMetaList : blocks[1].charMetaList[n].style = <<>>)
       => /\ blocks[1].text = <<"a", " ", " ", "b">> => result = "<p>a &nbsp;b</p>"
          /\ blocks[1].text = <<" ", "a", " ">> => result = "<p>&nbsp;a&nbsp;</p>"

\* a bold "a" followed by a plain " a": the second run starts with a space
C9_Witness ==
  /\ pc = "done"
  /\ blocks[1].text = <<"a", " ", "a">>
  /\ blocks[1].charMetaList[1].style = <<"BOLD">>
  /\ blocks[1].charMetaList[2].style = <<>>
  /\ blocks[1].charMetaList[3].style = <<>>
  /\ Len(StylePieces(1)) = 2
  /\ StylePieces(1)[2].html = <<" ", "a">>
  /\ result = "<p><strong>a</strong> a</p>"

-----------------------------------------------------------------------------
(* C10 *)

\* C10: in the markup of a style run every character of the text is written
\* once, &, < and > as &amp;, &lt; and &gt;; in the markup of a link or an
\* image every character of every attribute value is written once, &, <, >
\* and " as &amp;, &lt;, &gt; and &quot;; and neither is changed again on the
\* way to the output (an & written for an entity stays as it is).
C10_EscapedOnce ==
  \A i \in DOMAIN pieces :
    /\ \A k \in DOMAIN StylePieces(i) :
         TextOf(StylePieces(i)[k].html) = EscapedOnce(StylePieces(i)[k].text, ContentEntity)
    /\ \A k \in DOMAIN pieces[i] :
         LET piece == pieces[i][k]
             type == IF piece.entityKey # Null /\ piece.entityKey \in DOMAIN entities
                       THEN toUpperCase(entities[piece.entityKey].type) ELSE Null
         IN /\ piece.content
                 = Flatten([n \in 1..Len(piece.stylePieces) |-> piece.stylePieces[n].html])
            /\ type = "LINK" =>
                 piece.html = <<"<a">> \o AttrStringOf(piece.attrs) \o <<">">>
                                \o piece.content \o <<"</a>">>
            /\ type = "IMAGE" =>
                 piece.html = <<"<img">> \o AttrStringOf(piece.attrs) \o <<"/>">>
    /\ pieces[i] # <<>> =>
         \A p \in OwnPositions(i) :
           output[p].k = "content" =>
             output[p].c = Flatten([k \in 1..Len(pieces[i]) |-> pieces[i][k].html])

\* a link whose url is "&lt;" (it becomes &amp;lt;) around the text "ab"
C10_Witness ==
  /\ pc = "done"
  /\ Len(pieces[1]) = 1
  /\ pieces[1][1].attrs = <<<<"href", <<"&", "l", "t", ";">>>>>>
  /\ result = "<p><a href=\"&amp;lt;\">ab</a></p>"

-----------------------------------------------------------------------------
(* C11 *)

\* the attribute a key of a link's data is written under, Null for none
LinkAttrName(dataKey) ==
  CASE dataKey = <<"u", "r", "l">> -> "href"
    [] dataKey = <<"r", "e", "l">> -> "rel"
    [] dataKey = <<"t", "a", "r", "g", "e", "t">> -> "target"
    [] dataKey = <<"t", "i", "t", "l", "e">> -> "title"
    [] dataKey = <<"c", "l", "a", "s", "s", "N", "a", "m", "e">> -> "class"
    [] /\ Len(dataKey) > 5
       /\ SubSeq(dataKey, 1, 5) = <<"d", "a", "t", "a", "-">>
       /\ \A n \in DOMAIN dataKey : dataKey[n] \in LowerAlnumDash -> Join(dataKey)
    [] OTHER -> Null

LinkAttributes(data) ==
  LET written == SelectSeq(data, LAMBDA pair : LinkAttrName(pair[1]) # Null)
  IN [n \in DOMAIN written |-> <<LinkAttrName(written[n][1]), written[n][2]>>]

IsLink(entityKey) ==
  /\ entityKey # Null
  /\ entityKey \in DOMAIN entities
  /\ entities[entityKey] # NoEntity
  /\ entities[entityKey].type \in {"LINK", "link"}

\* C11: with the default configuration the range of a link entity is an a
\* element around the range's content whose attributes come from the entity's
\* data, in the data's order: a key of the link attribute table under its
\* mapped name (url as href), any other key of the form data-[a-z0-9-]+ under
\* its own name, no other key; "click" with {url: "https://x"} becomes
\* <a href="https://x">click</a>.
C11_LinkAttributes ==
  options = NoOptions =>
    /\ \A i \in DOMAIN pieces : \A k \in DOMAIN pieces[i] :
         LET piece == pieces[i][k]
         IN IsLink(piece.entityKey) =>
              piece.html = <<"<a">> \o AttrStringOf(LinkAttributes(entities[piece.entityKey].data))
                             \o <<">">> \o piece.content \o <<"</a>">>
    /\ pc = "done" /\ blocks = ClickInput.content /\ entities = ClickInput.ents
       => result = "<p><a href=\"https://x\">click</a></p>"

C11_Witness ==
  /\ pc = "done"
  /\ options = NoOptions
  /\ blocks = ClickInput.content
  /\ entities = ClickInput.ents
  /\ IsLink(pieces[1][1].entityKey)
  /\ pieces[1][1].attrs = <<<<"href", HttpsX>>>>
  /\ result = "<p><a href=\"https://x\">click</a></p>"

\* a link with a data- key, a key of no table and no pattern, and a table key
C11_WitnessKeys ==
  /\ pc = "done"
  /\ options = NoOptions
  /\ Len(pieces[1]) = 1
  /\ IsLink(pieces[1][1].entityKey)
  /\ entities[pieces[1][1].entityKey].data = <<<<KeyFoo, <<"&">>>>, <<KeyDataId, <<"&">>>>>>
  /\ result = "<p><a data-id=\"&amp;\">ab</a></p>"

-----------------------------------------------------------------------------
(* C12 *)

\* the wrapper a block of the type requires
RequiredWrapper(blockType) ==
  CASE blockType = "unordered-list-item" -> "ul"
    [] blockType = "ordered-list-item" -> "ol"
    [] OTHER -> Null

\* what the step has appended to the output
Added == SubSeq(output', Len(output) + 1, Len(output'))

\* the step is the start of a processBlock call
StartsBlock == order' # order

\* the wrapper lines a block of the type must begin with, the open wrapper
\* being open and the level being level
WrapperLines(open, level, blockType) ==
  LET required == RequiredWrapper(blockType)
      closing == IF open # required /\ open # Null
                   THEN <<IndentFrag(level - 1), CloseFrag(open), NewLine>> ELSE <<>>
      opening == IF open # required /\ required # Null
                   THEN <<IndentFrag(level - Len(closing) \div 3), OpenFrag(required), NewLine>>
                   ELSE <<>>
  IN closing \o opening

\* C12: a processBlock call first writes the end tag of the open wrapper and
\* then the start tag of the wrapper its block requires (ul, ol or none), if
\* the two differ, and no wrapper tag if they are the same; the block's own
\* output (its indentation, then its start tag or its renderer's string)
\* comes after that and holds no wrapper tag.  So a list item that follows a
\* list item of its type at its depth writes no wrapper tag, and a block that
\* requires another wrapper than the open one closes the open one.
C12_WrapperSwitch ==
  [][StartsBlock =>
       LET block == blocks[currentBlock + 1]
           lines == WrapperLines(wrapperTag, indentLevel, block.type)
           own == SubSeq(Added, Len(lines) + 1, Len(Added))
       IN /\ SubSeq(Added, 1, Len(lines)) = lines
          /\ Len(own) >= 2
          /\ IsIndent(own[1])
          /\ own[2].k \in {"open", "raw"}
          /\ \A n \in DOMAIN own : ~IsWrapperFrag(own[n])
          /\ wrapperTag = RequiredWrapper(block.type) => lines = <<>>
          /\ /\ currentBlock > 0
             /\ blocks[currentBlock].type = block.type
             /\ blocks[currentBlock].depth = block.depth
             /\ RequiredWrapper(block.type) # Null
             => \A n \in DOMAIN Added : ~IsWrapperFrag(Added[n])
          /\ wrapperTag # Null /\ wrapperTag # RequiredWrapper(block.type)
             => Len(Added) > 3 /\ Added[2] = CloseFrag(wrapperTag)]_vars

\* an ordered list item after an unordered one: </ul>, then <ol>, then <li>
C12_Witness ==
  /\ Len(order) = 2
  /\ blocks[1].type = "unordered-list-item"
  /\ blocks[2].type = "ordered-list-item"
  /\ \E p \in DOMAIN output :
       /\ p + 6 <= Len(output)
       /\ owner[p] = 2
       /\ SubSeq(output, p, p + 6)
            = <<IndentFrag(0), CloseFrag("ul"), NewLine,
                IndentFrag(0), OpenFrag("ol"), NewLine, IndentFrag(1)>>

-----------------------------------------------------------------------------
(* C13 *)

\* the step is the return of a nested run to the processBlock that started it
ReturnsToBlock == stack # <<>> /\ Top.k = "processBlock" /\ stack' = Pop(stack)

\* the level block i's own line was indented to when its processBlock began
LineLevel(i) == OwnMarkup(i)[1].n

\* the first block after the run nested under block i (Len(blocks) + 1 if none)
AfterRun(i) ==
  Min({j \in (i + 1)..(Len(blocks) + 1) :
         j = Len(blocks) + 1 \/ blocks[j].depth # blocks[i].depth + 1})

NestedItemList ==
  [n \in 1..3 |-> Block("unordered-list-item", IF n = 2 THEN 1 ELSE 0, <<"x">>,
                        PlainMeta(<<"x">>))]

\* C13: when the run nested under a list item has been processed, wrapperTag
\* and indentLevel are again what they were when the recursion began (the
\* item's wrapper, the level of the item's line), so a list item of the same
\* type and depth that follows the run writes no wrapper tag; list items of
\* depths [0,1,0] give one outer list of two items.
C13_NestedRunRestores ==
  /\ [][ReturnsToBlock =>
          /\ wrapperTag' = RequiredWrapper(blocks[Top.block + 1].type)
          /\ indentLevel' = LineLevel(Top.block + 1)]_vars
  /\ [](\A n \in DOMAIN order :
          LET i == order[n]
              j == AfterRun(i)
          IN /\ FollowedByDeeper(i)
             /\ ~CustomRendered(i)
             /\ j \in DOMAIN blocks
             /\ \E m \in DOMAIN order : order[m] = j
             /\ blocks[j].type = blocks[i].type
             /\ blocks[j].depth = blocks[i].depth
             => \A p \in OwnPositions(j) : ~IsWrapperFrag(output[p]))
  /\ [](pc = "done" /\ blocks = NestedItemList /\ options = NoOptions =>
          result = "<ul>\n  <li>x\n    <ul>\n      <li>x</li>\n    </ul>\n  </li>\n  <li>x</li>\n</ul>")

C13_Witness ==
  /\ pc = "done"
  /\ blocks = NestedItemList
  /\ options = NoOptions
  /\ order = <<1, 2, 3>>
  /\ result = "<ul>\n  <li>x\n    <ul>\n      <li>x</li>\n    </ul>\n  </li>\n  <li>x</li>\n</ul>"

-----------------------------------------------------------------------------
(* C14 *)

\* the entity getter returns null or undefined for the key
Unresolved(entityKey) ==
  entityKey # Null /\ (entityKey \notin DOMAIN entities \/ entities[entityKey] = NoEntity)

\* block i with the entity keys that do not resolve taken off its characters
WithoutUnresolved(i) ==
  [blocks[i] EXCEPT !.charMetaList =
     [n \in DOMAIN @ |-> IF Unresolved(@[n].entity) THEN [@[n] EXCEPT !.entity = Null]
                         ELSE @[n]]]

\* C14: a range whose entity key the getter resolves to null or undefined is
\* written as its style-rendered content, no attribute renderer and no
\* formatter being called, and the block's content is what it would be if
\* the characters of such ranges had no entity key.
C14_UnresolvedEntity ==
  \A i \in DOMAIN pieces :
    /\ \A k \in DOMAIN pieces[i] :
         LET piece == pieces[i][k]
         IN Unresolved(piece.entityKey) =>
              /\ piece.html = piece.content
              /\ piece.content = Flatten([j \in DOMAIN piece.stylePieces |->
                                            piece.stylePieces[j].html])
              /\ piece.invoked = <<>>
    /\ pieces[i] # <<>> =>
         Flatten([k \in DOMAIN pieces[i] |-> pieces[i][k].html])
           = renderBlockContent(WithoutUnresolved(i))

\* "ab", the a with a key that resolves to nothing and the b with a link
C14_Witness ==
  /\ pc = "done"
  /\ Len(pieces[1]) = 2
  /\ Unresolved(pieces[1][1].entityKey)
  /\ pieces[1][1].html = <<"a">>
  /\ pieces[1][2].invoked = <<"DATA_TO_ATTR", "LINK">>
  /\ result = "<p>a<a>b</a></p>"

-----------------------------------------------------------------------------
(* C15 *)

\* the styles of the style order that are in the set, but for those left out,
\* in the order's order
Ordered(styleSet, leftOut) ==
  SelectSeq(styleOrder,
            LAMBDA styleName : /\ \E n \in DOMAIN styleSet : styleSet[n] = styleName
                               /\ styleName \notin leftOut)

\* content in the elements of the styles, the first style inner-most
RECURSIVE Enclosed(_, _)
Enclosed(content, styleNames) ==
  IF styleNames = <<>> THEN content
  ELSE Enclosed(<<"<" \o ElementOf(Head(styleNames)) \o ">">> \o content
                  \o <<"</" \o ElementOf(Head(styleNames)) \o ">">>,
                Tail(styleNames))

\* C15: in a code block no run gets an element for the code style, and every
\* other style of the run gets its element, in style order; in a block of
\* any other type the code style gets its element like every other style.
C15_CodeStyleInCodeBlock ==
  \A i \in DOMAIN pieces : \A k \in DOMAIN StylePieces(i) :
    LET piece == StylePieces(i)[k]
        html == piece.html
        code == "<" \o ElementOf("CODE") \o ">"
        coded == \E n \in DOMAIN piece.styleSet : piece.styleSet[n] = "CODE"
    IN IF blocks[i].type = "code-block"
         THEN /\ \A n \in DOMAIN html : html[n] # code
              /\ html = Enclosed(TextOf(html), Ordered(piece.styleSet, {"CODE"}))
         ELSE /\ coded => \E n \in DOMAIN html : html[n] = code
              /\ html = Enclosed(TextOf(html), Ordered(piece.styleSet, {}))

\* a bold code run in a code block
C15_Witness ==
  /\ pc = "done"
  /\ options = NoOptions
  /\ blocks[1].type = BLOCK_TYPE.CODE
  /\ blocks[1].text = <<"a">>
  /\ blocks[1].charMetaList[1].style = <<"CODE", "BOLD">>
  /\ pieces[1][1].stylePieces[1].html = <<"<strong>", "a", "</strong>">>
  /\ result = "<pre><code><strong>a</strong></code></pre>"

\* the same run in a block quote
C15_WitnessOther ==
  /\ pc = "done"
  /\ options = NoOptions
  /\ blocks[1].type = BLOCK_TYPE.BLOCKQUOTE
  /\ blocks[1].charMetaList[1].style = <<"CODE", "BOLD">>
  /\ result = "<blockquote><code><strong>a</strong></code></blockquote>"

-----------------------------------------------------------------------------
(* C16 *)

\* the start tags written and not yet closed
OpenTags == Unclosed(output, 1, <<>>)
OpenWrappers == {n \in DOMAIN OpenTags : OpenTags[n] # 0 /\ IsWrapperFrag(output[OpenTags[n]])}
\* a list item is open between two steps only while its nested run is processed
OpenItems == {n \in DOMAIN OpenTags : OpenTags[n] # 0 /\ output[OpenTags[n]].t = "li"}

\* C16: from the start of generate() to its return indentLevel is not
\* negative, no indentation is written with a negative count, and indentLevel
\* is the number of wrapper tags open in the output plus the number of list
\* items open around a nested run; when generate() has returned indentLevel
\* is 0 and wrapperTag is null.
C16_IndentLevel ==
  pc \in {"run", "done"} =>
    /\ indentLevel >= 0
    /\ \A p \in DOMAIN output : output[p].k = "indent" => output[p].n >= 0
    /\ indentLevel = Cardinality(OpenWrappers) + Cardinality(OpenItems)
    /\ Cardinality(OpenWrappers) + Cardinality(OpenItems) = Len(OpenTags)
    /\ pc = "done" => indentLevel = 0 /\ wrapperTag = Null

\* inside the list nested under an item of a list: ul, li and ul are open
C16_Witness ==
  /\ pc = "run"
  /\ indentLevel = 3
  /\ Cardinality(OpenWrappers) = 2
  /\ Cardinality(OpenItems) = 1
  /\ wrapperTag = "ul"
  /\ Len(order) = 2

-----------------------------------------------------------------------------
(* C17 *)

IsListItem(i) == blocks[i].type \in {"unordered-list-item", "ordered-list-item"}

\* block i starts a nested run
Nests(i) == FollowedByDeeper(i) /\ ~CustomRendered(i)

\* the first block at or after j that a run at the depth does not consume
RECURSIVE Scan(_, _)
Scan(j, depth) ==
  IF j > Len(blocks) \/ blocks[j].depth # depth THEN j
  ELSE IF Nests(j) THEN Scan(Scan(j + 1, blocks[j].depth + 1), depth)
  ELSE Scan(j + 1, depth)

RunEnd(i) == Scan(i + 1, blocks[i].depth + 1)

\* where block j's own markup starts in out, own naming the writer of each fragment
StartIn(out, own, j) ==
  Min({p \in DOMAIN out : own[p] = j /\ out[p].k \in {"open", "raw"} /\ ~IsWrapperFrag(out[p])})

\* the start tags of blocks that are open where block j's markup starts
ItemsAround(out, own, j) ==
  SelectSeq(Unclosed(SubSeq(out, 1, StartIn(out, own, j) - 1), 1, <<>>),
            LAMBDA q : q # 0 /\ ~IsWrapperFrag(out[q]))

\* the block whose element block j's markup is written in, 0 if none
ParentIn(out, own, j) ==
  LET items == ItemsAround(out, own, j)
  IN IF items = <<>> THEN 0 ELSE own[items[Len(items)]]

\* block j's markup is written somewhere inside block i's element
Within(i, j) ==
  \E n \in DOMAIN ItemsAround(output, owner, j) :
    owner[ItemsAround(output, owner, j)[n]] = i

\* the block whose nested run the loop on top of the stack processes, 0 for
\* the loop of generate
LevelOwner == IF Top.k = "generate" THEN 0 ELSE stack[Len(stack) - 1].block + 1

\* C17: a nested run is started only by a list item followed by a block
\* exactly one level deeper; a block that is more than one level deeper than
\* the block before it, or that follows a block that is no list item, is not
\* written inside that block's element but directly at the level being
\* processed; and the run nested under a list item at depth d takes the
\* blocks up to the first one, not consumed by a run nested deeper, whose
\* depth is not d+1: the blocks before that one are written inside the list
\* item's element and no block from that one on is.
C17_NestingByOneLevel ==
  /\ [][/\ Len(stack') > Len(stack) /\ pc = "run" =>
             /\ IsListItem(currentBlock + 1)
             /\ currentBlock + 2 \in DOMAIN blocks
             /\ blocks[currentBlock + 2].depth = blocks[currentBlock + 1].depth + 1
        /\ /\ StartsBlock
           /\ currentBlock > 0
           /\ \/ ~IsListItem(currentBlock)
              \/ blocks[currentBlock + 1].depth > blocks[currentBlock].depth + 1
           => /\ ParentIn(output', owner', currentBlock + 1) # currentBlock
              /\ ParentIn(output', owner', currentBlock + 1) = LevelOwner]_vars
  /\ [](\A m, n \in DOMAIN order :
          LET i == order[m]
              j == order[n]
          IN i < j => (Within(i, j) <=> Nests(i) /\ j < RunEnd(i)))

\* list items at depths 0, 1, 0, 2: the second is nested under the first, the
\* run ends at the third, and the fourth, two levels deeper than the third,
\* follows it as a sibling
C17_Witness ==
  /\ pc = "done"
  /\ options = NoOptions
  /\ Len(blocks) = 4
  /\ [n \in 1..4 |-> blocks[n].depth] = <<0, 1, 0, 2>>
  /\ Within(1, 2) /\ ~Within(1, 3) /\ ~Within(3, 4)
  /\ result = "<ul>\n  <li>x\n    <ul>\n      <li>x</li>\n    </ul>\n  </li>\n  <li>x</li>\n  <li>x</li>\n</ul>"

-----------------------------------------------------------------------------
(* SpecCalls: up to MaxCalls calls of stateToHTML, one after the other, in  *)
(* one process: the module's tables are those the calls before have left    *)

LinkedText(entity) ==
  [content |-> <<Block(BLOCK_TYPE.UNSTYLED, 0, <<"a", "b">>,
                       <<[style |-> <<>>, entity |-> "1"], [style |-> <<>>, entity |-> "1"]>>)>>,
   ents |-> [k \in {"1"} |-> entity]]

CallDocuments ==
  {LinkedText([type |-> "LINK", data |-> <<<<KeyUrl, <<"x">>>>>>]),
   LinkedText([type |-> "MENTION", data |-> <<>>])}

CallOptions ==
  {NoOptions,
   [entityFormatterMap |-> [t \in {"MENTION"} |-> "MARK"]],
   [entityFormatterMap |-> [t \in {"LINK"} |-> "MARK"]],
   [entityAttributesMap |-> [t \in {"LINK"} |-> [url |-> "src"]]]}

InitCalls ==
  /\ Constructed(<<>>, NoOptions, NoEntities,
                 DEFAULT_ENTITY_FORMATTER_MAP, DEFAULT_ENTITY_ATTR_MAP)
  /\ Unset
  /\ pc = "idle"
  /\ calls = <<>>

\* stateToHTML(content, options) up to the call of generate (line 443)
StateToHTML ==
  /\ pc \in {"idle", "done"}
  /\ Len(calls) < MaxCalls
  /\ \E doc \in CallDocuments, opts \in CallOptions :
       LET new == constructor(doc.content, opts, doc.ents,
                              ENTITY_FORMATTER_MAP, ENTITY_ATTR_MAP)
       IN /\ blocks' = new.blocks
          /\ options' = new.options
          /\ entities' = new.entities
          /\ ENTITY_FORMATTER_MAP' = new.ENTITY_FORMATTER_MAP
          /\ ENTITY_ATTR_MAP' = new.ENTITY_ATTR_MAP
          /\ inlineStyles' = new.inlineStyles
          /\ styleOrder' = new.styleOrder
  /\ pc' = "new"
  /\ UNCHANGED <<output, currentBlock, indentLevel, wrapperTag, stack, result, owner,
                 order, pieces, calls>>

NextCalls ==
  \/ StateToHTML
  \/ Generate
  \/ ProcessBlockFlat
  \/ GenerateReturn

SpecCalls == InitCalls /\ [][NextCalls]_vars

-----------------------------------------------------------------------------
(* C3 *)

\* C3 (as claimed): no state survives a call, so two calls with the same
\* document (and entities) and the same options return the same string,
\* whatever calls ran in between.
C3_SameInputSameOutput ==
  \A i, j \in DOMAIN calls :
    /\ calls[i].blocks = calls[j].blocks
    /\ calls[i].entities = calls[j].entities
    /\ calls[i].options = calls[j].options
    => calls[i].result = calls[j].result

====
